---- MODULE Spec2Model ----
(***************************************************************************)
(* Model of test-jwt-token.py: a script that draws two uuid4 identifiers,  *)
(* builds a claims dict with two wall-clock readings, signs it with        *)
(* jwt.encode(..., algorithm="HS256") and prints the result.               *)
(*                                                                         *)
(* Python values are records [t |-> type tag, v |-> content]; a dict is    *)
(* the sequence of its <<key, value>> items in insertion order; JSON text  *)
(* is the sequence of its <<name, JSON value>> members in document order.  *)
(* pc is the line number of the next statement of the script.              *)
(***************************************************************************)
EXTENDS Integers, Sequences, FiniteSets

VARIABLES pc, clock, rng, TENANT_ID, USER_ID, iat_value, payload, token, out, run, previous,
          exception

vars == <<pc, clock, rng, TENANT_ID, USER_ID, iat_value, payload, token, out, run, previous, exception>>

(* ------------------------------ bounds --------------------------------- *)
\* uuid4() results are drawn from 1..NumUuids
NumUuids == 2
\* the clock moves forward by 1..MaxTickUs microseconds at a time, and is
\* followed from MaxTickUs microseconds before a second boundary
MaxTickUs == 1
\* the clock may be set back by 24 hours plus 0..MaxSetBackExtra seconds
MaxSetBackExtra == 0
\* number of invocations of the script that are observed
MaxRuns == 2
\* candidate verification secrets: the secret with up to MaxKeyEdit bytes
\* cut off the end or appended
MaxKeyEdit == 2

(* ------------------------- program constants --------------------------- *)
\* datetime resolution
MICROSECONDS == 1000000
\* timedelta(hours=24)
HOURS == 24
\* line of the first statement, line past the last one, uncaught exception
FIRST_LINE == 13
DONE == 57
ABORTED == 0
\* block size of SHA-256, to which HMAC pads its key with zero bytes
BLOCK_SIZE == 64
\* "dev-secret-key-not-for-production" as bytes
SECRET_KEY ==
  <<100, 101, 118, 45, 115, 101, 99, 114, 101, 116, 45, 107, 101, 121, 45,
    110, 111, 116, 45, 102, 111, 114, 45, 112, 114, 111, 100, 117, 99, 116,
    105, 111, 110>>
ALGORITHM == "HS256"

(* --------------------------- Python values ----------------------------- *)
Unbound == [t |-> "unbound", v |-> <<>>]
PyStr(s) == [t |-> "str", v |-> s]
PyInt(n) == [t |-> "int", v |-> n]
\* uuid.uuid4(): a random UUID object carrying the drawn value
uuid4(u) == [t |-> "UUID", v |-> u]
\* str(): the hexadecimal text of a UUID, "YYYY-MM-DD HH:MM:SS.ffffff" of a
\* datetime, a str unchanged
str(x) ==
  CASE x.t = "UUID" -> PyStr(<<"hex", x.v>>)
    [] x.t = "datetime" -> PyStr(<<"isoformat", x.v[1], x.v[2]>>)
    [] OTHER -> x
\* a naive datetime: whole seconds since the epoch and microseconds
datetime(sec, us) == [t |-> "datetime", v |-> <<sec, us>>]
\* timedelta(hours=h) as seconds
timedelta(h) == h * 3600
\* datetime + timedelta: the microseconds are kept
DatetimeAdd(dt, secs) == datetime(dt.v[1] + secs, dt.v[2])
\* datetime.utcnow(): the wall clock as a datetime
utcnow(c) == datetime(c.sec, c.us)
\* the clock moved by d microseconds (|d| < MICROSECONDS), with carry
ClockPlusUs(c, d) ==
  LET total == c.us + d
  IN  IF total >= MICROSECONDS
        THEN [sec |-> c.sec + 1, us |-> total - MICROSECONDS]
        ELSE [sec |-> c.sec, us |-> total]

(* ------------------------------- dicts --------------------------------- *)
Keys(d) == {d[i][1] : i \in DOMAIN d}
Get(d, k) == d[CHOOSE i \in DOMAIN d : d[i][1] = k][2]
\* equality of two Python/JSON values: same type and same content
SameValue(a, b) == a.t = b.t /\ a.v = b.v
\* dict equality: same keys, equal value under every key
DictEq(a, b) ==
  /\ Keys(a) = Keys(b)
  /\ \A k \in Keys(a) : SameValue(Get(a, k), Get(b, k))

\* Claims with org_id taken from the user identifier
Claims_orgFromUser(user, tenant, iat, exp) ==
  << <<"sub", user>>,
     <<"tenant_id", tenant>>,
     <<"org_id", user>>,
     <<"email", PyStr("test@example.com")>>,
     <<"name", PyStr("Test User")>>,
     <<"iat", iat>>,
     <<"exp", exp>>,
     <<"iss", PyStr("https://dev-placeholder.local")>>,
     <<"aud", PyStr("subscription-engine")>> >>
\* Claims with a not-before claim added
Claims_withNbf(user, tenant, iat, exp) ==
  << <<"sub", user>>,
     <<"tenant_id", tenant>>,
     <<"org_id", tenant>>,
     <<"email", PyStr("test@example.com")>>,
     <<"name", PyStr("Test User")>>,
     <<"iat", iat>>,
     <<"nbf", iat>>,
     <<"exp", exp>>,
     <<"iss", PyStr("https://dev-placeholder.local")>>,
     <<"aud", PyStr("subscription-engine")>> >>
\* the dict literal of lines 17-27
Claims(user, tenant, iat, exp) ==
  << <<"sub", user>>,
     <<"tenant_id", tenant>>,
     <<"org_id", tenant>>,
     <<"email", PyStr("test@example.com")>>,
     <<"name", PyStr("Test User")>>,
     <<"iat", iat>>,
     <<"exp", exp>>,
     <<"iss", PyStr("https://dev-placeholder.local")>>,
     <<"aud", PyStr("subscription-engine")>> >>

(* ------------------------------- JSON ---------------------------------- *)
\* json encoding of one Python value; default is applied to a value json
\* cannot serialize (line 56 passes default=str), and without a default
\* such a value is a TypeError
ToJson(x, use_default_str) ==
  CASE x.t = "str" -> [t |-> "string", v |-> x.v]
    [] x.t = "int" -> [t |-> "number", v |-> x.v]
    [] OTHER -> IF use_default_str
                  THEN [t |-> "string", v |-> str(x).v]
                  ELSE [t |-> "TypeError", v |-> <<>>]
\* json decoding of one JSON value
FromJson(j) ==
  CASE j.t = "string" -> PyStr(j.v)
    [] j.t = "number" -> PyInt(j.v)
    [] OTHER -> Unbound
\* json.dumps(d): the members in the dict's insertion order
json_dumps(d, use_default_str) ==
  [i \in DOMAIN d |-> <<d[i][1], ToJson(d[i][2], use_default_str)>>]
\* json.loads(text): a dict in document order
json_loads(text) == [i \in DOMAIN text |-> <<text[i][1], FromJson(text[i][2])>>]

(* ---------------------------- jwt.encode ------------------------------- *)
base64url_encode(x) == <<"base64url", x>>
base64url_decode(seg) == seg[2]
\* calendar.timegm(dt.utctimetuple()): whole seconds, microseconds dropped
timegm(dt) == dt.v[1]
\* NormalizeTimeClaims building the copy in reverse item order
NormalizeTimeClaims_reversed(d) ==
  [i \in DOMAIN d |->
     LET j == Len(d) + 1 - i
     IN  IF d[j][1] \in {"exp", "iat", "nbf"} /\ d[j][2].t = "datetime"
           THEN <<d[j][1], PyInt(timegm(d[j][2]))>>
           ELSE d[j]]
\* jwt.encode works on a copy of the payload in which a datetime under
\* exp, iat or nbf is replaced by its integer timestamp
NormalizeTimeClaims(d) ==
  [i \in DOMAIN d |->
     IF d[i][1] \in {"exp", "iat", "nbf"} /\ d[i][2].t = "datetime"
       THEN <<d[i][1], PyInt(timegm(d[i][2]))>>
       ELSE d[i]]
\* the JOSE header, serialized with sorted keys
Header(algorithm) == << <<"alg", PyStr(algorithm)>>, <<"typ", PyStr("JWT")>> >>
\* HMAC pads a key up to the block size with zero bytes, and hashes a longer one
KeyBlock(key) ==
  IF Len(key) > BLOCK_SIZE
    THEN <<"sha256", key>>
    ELSE key \o [i \in 1..(BLOCK_SIZE - Len(key)) |-> 0]
\* HMAC-SHA256 with SHA-256 taken as collision free: the tag determines the
\* key block and the message
hmac_sha256(key, msg) == <<"HMAC-SHA256", KeyBlock(key), msg>>
\* jwt_encode signing the payload segment alone
jwt_encode_payloadOnly(d, key, algorithm) ==
  LET h == base64url_encode(json_dumps(Header(algorithm), FALSE))
      p == base64url_encode(json_dumps(NormalizeTimeClaims(d), FALSE))
  IN  [header |-> h, payload |-> p,
       signature |-> base64url_encode(hmac_sha256(key, <<p>>))]
\* jwt.encode(payload, key, algorithm="HS256"): the three segments of the
\* compact serialization header.payload.signature
jwt_encode(d, key, algorithm) ==
  LET h == base64url_encode(json_dumps(Header(algorithm), FALSE))
      p == base64url_encode(json_dumps(NormalizeTimeClaims(d), FALSE))
  IN  [header |-> h, payload |-> p,
       signature |-> base64url_encode(hmac_sha256(key, <<h, p>>))]
NoToken == [header |-> <<>>, payload |-> <<>>, signature |-> <<>>]
\* signature check of a token against a key with the token's algorithm
VerifySignature(tok, key) ==
  base64url_decode(tok.signature) = hmac_sha256(key, <<tok.header, tok.payload>>)
\* the claims a consumer reads out of the payload segment
DecodePayload(tok) == json_loads(base64url_decode(tok.payload))
DecodeHeader(tok) == json_loads(base64url_decode(tok.header))

(* ----------------------------- the script ------------------------------ *)
\* print statements without interpolation
StaticLines == {35, 39, 40, 41, 42, 44, 46, 47, 48, 49, 51, 53, 54, 55}
TokenLines == {38, 43, 50}
IdempotencyLines == {45, 52}
Printed(line, arg) == [line |-> line, arg |-> arg]
\* no invocation before this one
NoRun == [sub |-> Unbound, tenant_id |-> Unbound, draws |-> <<>>]
\* what jwt.encode raises when the key or the algorithm is not usable
SigningExceptions == {"InvalidKeyError", "NotImplementedError"}

\* the wall clock at the start: at the epoch or a day later, on a second
\* boundary or up to MaxTickUs microseconds before the next one
StartClocks ==
  {[sec |-> d, us |-> u] :
     d \in {0, timedelta(HOURS)},
     u \in {0} \cup {MICROSECONDS - k : k \in 1..MaxTickUs}}
\* the part of the time line the model follows: the starts and the second
\* boundary after them
InWindow(c) ==
  /\ \E s \in 0..1, d \in {0, timedelta(HOURS)} : c.sec = s + d
  /\ (c.us = 0 \/ c.us >= MICROSECONDS - MaxTickUs)

Init ==
  /\ pc = FIRST_LINE
  /\ clock \in StartClocks
  /\ rng = <<>>
  /\ TENANT_ID = Unbound
  /\ USER_ID = Unbound
  /\ iat_value = Unbound
  /\ payload = <<>>
  /\ token = NoToken
  /\ out = <<>>
  /\ run = 1
  /\ previous = NoRun
  /\ exception = "none"

\* the wall clock moves forward between the reading of line 23 and that of
\* line 24 (the clock is read nowhere else)
Tick ==
  /\ pc = 24
  /\ \E d \in 1..MaxTickUs :
       /\ InWindow(ClockPlusUs(clock, d))
       /\ clock' = ClockPlusUs(clock, d)
  /\ UNCHANGED <<pc, rng, TENANT_ID, USER_ID, iat_value, payload, token, out, run, previous, exception>>

\* the wall clock is set back between the two readings (time.time() is not
\* monotonic), by a second or by a day and more
ClockSetBack ==
  /\ pc = 24
  /\ \E s \in {1} \cup {timedelta(HOURS) + k : k \in 0..MaxSetBackExtra} :
       /\ clock.sec >= s
       /\ InWindow([clock EXCEPT !.sec = clock.sec - s])
       /\ clock' = [clock EXCEPT !.sec = clock.sec - s]
  /\ UNCHANGED <<pc, rng, TENANT_ID, USER_ID, iat_value, payload, token, out, run, previous, exception>>

\* Line13 reusing the tenant identifier of the previous invocation
Line13_cached ==
  /\ pc = 13
  /\ \E u \in 1..NumUuids :
       /\ TENANT_ID' = IF previous = NoRun THEN str(uuid4(u))
                                         ELSE previous.tenant_id
       /\ rng' = Append(rng, u)
  /\ pc' = 14
  /\ UNCHANGED <<clock, USER_ID, iat_value, payload, token, out, run, previous, exception>>

\* line 13: TENANT_ID = str(uuid.uuid4())
Line13 ==
  /\ pc = 13
  /\ \E u \in 1..NumUuids :
       /\ TENANT_ID' = str(uuid4(u))
       /\ rng' = Append(rng, u)
  /\ pc' = 14
  /\ UNCHANGED <<clock, USER_ID, iat_value, payload, token, out, run, previous, exception>>

\* line 14: USER_ID = str(uuid.uuid4())
Line14 ==
  /\ pc = 14
  /\ \E u \in 1..NumUuids :
       /\ USER_ID' = str(uuid4(u))
       /\ rng' = Append(rng, u)
  /\ pc' = 17
  /\ UNCHANGED <<clock, TENANT_ID, iat_value, payload, token, out, run, previous, exception>>

\* lines 17-23: the dict literal is evaluated up to "iat": datetime.utcnow()
Line23 ==
  /\ pc = 17
  /\ iat_value' = utcnow(clock)
  /\ pc' = 24
  /\ UNCHANGED <<clock, rng, TENANT_ID, USER_ID, payload, token, out, run, previous, exception>>

\* lines 24-27: "exp": datetime.utcnow() + timedelta(hours=24), the rest of
\* the literal, and the binding of payload
Line24 ==
  /\ pc = 24
  /\ payload' = Claims(USER_ID, TENANT_ID, iat_value,
                       DatetimeAdd(utcnow(clock), timedelta(HOURS)))
  /\ pc' = 33
  /\ UNCHANGED <<clock, rng, TENANT_ID, USER_ID, iat_value, token, out, run, previous, exception>>

\* Line33 with an encoder that converts the time claims in the caller's dict
Line33_inplace ==
  /\ pc = 33
  /\ token' = jwt_encode(payload, SECRET_KEY, ALGORITHM)
  /\ payload' = NormalizeTimeClaims(payload)
  /\ pc' = 35
  /\ UNCHANGED <<clock, rng, TENANT_ID, USER_ID, iat_value, out, run, previous, exception>>

\* line 33: token = jwt.encode(payload, SECRET_KEY, algorithm="HS256")
Line33 ==
  /\ pc = 33
  /\ token' = jwt_encode(payload, SECRET_KEY, ALGORITHM)
  /\ pc' = 35
  /\ UNCHANGED <<clock, rng, TENANT_ID, USER_ID, iat_value, payload, out, run, previous, exception>>

\* Line33Raises with the exception caught and the script carrying on
Line33Raises_swallowed ==
  /\ pc = 33
  /\ \E e \in SigningExceptions : exception' = e
  /\ pc' = 35
  /\ UNCHANGED <<clock, rng, TENANT_ID, USER_ID, iat_value, payload, token, out, run, previous>>

\* line 33 when jwt.encode raises: nothing catches the exception and the
\* interpreter exits
Line33Raises ==
  /\ pc = 33
  /\ \E e \in SigningExceptions : exception' = e
  /\ pc' = ABORTED
  /\ UNCHANGED <<clock, rng, TENANT_ID, USER_ID, iat_value, payload, token, out, run, previous>>

\* a print without interpolation
print_static ==
  /\ pc \in StaticLines
  /\ out' = Append(out, Printed(pc, Unbound))
  /\ pc' = pc + 1
  /\ UNCHANGED <<clock, rng, TENANT_ID, USER_ID, iat_value, payload, token, run, previous, exception>>

\* line 36: print(f"Tenant ID: {TENANT_ID}")
print_tenant_id ==
  /\ pc = 36
  /\ out' = Append(out, Printed(pc, TENANT_ID))
  /\ pc' = pc + 1
  /\ UNCHANGED <<clock, rng, TENANT_ID, USER_ID, iat_value, payload, token, run, previous, exception>>

\* line 37: print(f"User ID: {USER_ID}")
print_user_id ==
  /\ pc = 37
  /\ out' = Append(out, Printed(pc, USER_ID))
  /\ pc' = pc + 1
  /\ UNCHANGED <<clock, rng, TENANT_ID, USER_ID, iat_value, payload, token, run, previous, exception>>

\* lines 38, 43, 50: the token on the Token: line and in the Authorization headers
print_token ==
  /\ pc \in TokenLines
  /\ out' = Append(out, Printed(pc, token))
  /\ pc' = pc + 1
  /\ UNCHANGED <<clock, rng, TENANT_ID, USER_ID, iat_value, payload, token, run, previous, exception>>

\* lines 45, 52: Idempotency-Key: {str(uuid.uuid4())}
print_idempotency_key ==
  /\ pc \in IdempotencyLines
  /\ \E u \in 1..NumUuids :
       /\ out' = Append(out, Printed(pc, str(uuid4(u))))
       /\ rng' = Append(rng, u)
  /\ pc' = pc + 1
  /\ UNCHANGED <<clock, TENANT_ID, USER_ID, iat_value, payload, token, run, previous, exception>>

\* line 56: print(json.dumps(payload, indent=2, default=str)), the last statement
print_decoded ==
  /\ pc = 56
  /\ out' = Append(out, Printed(pc, json_dumps(payload, TRUE)))
  /\ pc' = DONE
  /\ UNCHANGED <<clock, rng, TENANT_ID, USER_ID, iat_value, payload, token, run, previous, exception>>

\* the script is run again: a new process, with nothing kept but the clock
Invoke ==
  /\ pc \in {DONE, ABORTED}
  /\ run < MaxRuns
  /\ previous' = [sub |-> Get(payload, "sub"),
                  tenant_id |-> Get(payload, "tenant_id"),
                  draws |-> SubSeq(rng, 1, 2)]
  /\ run' = run + 1
  /\ pc' = FIRST_LINE
  /\ rng' = <<>>
  /\ TENANT_ID' = Unbound
  /\ USER_ID' = Unbound
  /\ iat_value' = Unbound
  /\ payload' = <<>>
  /\ token' = NoToken
  /\ out' = <<>>
  /\ exception' = "none"
  /\ UNCHANGED clock

Next ==
  \/ Tick
  \/ ClockSetBack
  \/ Line13
  \/ Line14
  \/ Line23
  \/ Line24
  \/ Line33
  \/ Line33Raises
  \/ print_static
  \/ print_tenant_id
  \/ print_user_id
  \/ print_token
  \/ print_idempotency_key
  \/ print_decoded
  \/ Invoke

Spec == Init /\ [][Next]_vars

\* the same script under a wall clock that is never set back
NextForward ==
  \/ Tick
  \/ Line13
  \/ Line14
  \/ Line23
  \/ Line24
  \/ Line33
  \/ Line33Raises
  \/ print_static
  \/ print_tenant_id
  \/ print_user_id
  \/ print_token
  \/ print_idempotency_key
  \/ print_decoded
  \/ Invoke

SpecForward == Init /\ [][NextForward]_vars

(* ------------------------------ properties ----------------------------- *)
Issued == token # NoToken
\* the claims a consumer decodes from the issued token
Decoded == DecodePayload(token)
\* the nine claim names of the data model
ClaimNames == {"sub", "tenant_id", "org_id", "email", "name", "iat", "exp", "iss", "aud"}
\* secrets a verifier may try: the secret with up to MaxKeyEdit bytes cut off
\* its end and up to MaxKeyEdit bytes appended
KeyBytes == {0, 120}
CandidateKeys ==
  {SubSeq(SECRET_KEY, 1, Len(SECRET_KEY) - c) \o s :
     c \in 0..MaxKeyEdit, s \in UNION {[1..m -> KeyBytes] : m \in 0..MaxKeyEdit}}
RECURSIVE StripZeros(_)
StripZeros(k) ==
  IF k # <<>> /\ k[Len(k)] = 0 THEN StripZeros(SubSeq(k, 1, Len(k) - 1)) ELSE k

\* C1: in every issued token exp - iat is exactly 24 hours (86400 seconds),
\* also when the clock advances between the two readings.
C1_ExpiryExactly24h ==
  Issued => Get(Decoded, "exp").v - Get(Decoded, "iat").v = timedelta(HOURS)

\* C2: in the decoded payload of every issued token tenant_id equals org_id.
C2_TenantEqualsOrg ==
  Issued => SameValue(Get(Decoded, "tenant_id"), Get(Decoded, "org_id"))
C2_Witness ==
  /\ Issued
  /\ ~SameValue(Get(Decoded, "sub"), Get(Decoded, "tenant_id"))
  /\ SameValue(Get(Decoded, "tenant_id"), TENANT_ID)

\* C3 as stated: the signature of every issued token verifies with the
\* development secret and with no other secret.
C3_OnlyDevSecretVerifies ==
  Issued =>
    /\ VerifySignature(token, SECRET_KEY)
    /\ \A k \in CandidateKeys : k # SECRET_KEY => ~VerifySignature(token, k)
\* C3 amended: the signature of every issued token verifies with the
\* development secret, and with another secret exactly when that secret is the
\* development secret followed by zero bytes.
C3_VerifiesUpToZeroPadding ==
  Issued =>
    /\ VerifySignature(token, SECRET_KEY)
    /\ \A k \in CandidateKeys :
         VerifySignature(token, k) <=> StripZeros(k) = SECRET_KEY
C3_Witness ==
  /\ Issued
  /\ \E k \in CandidateKeys : k # SECRET_KEY /\ ~VerifySignature(token, k)
  /\ \E k \in CandidateKeys : k # SECRET_KEY /\ VerifySignature(token, k)

\* C4: the decoded payload of every issued token has exactly the nine claim
\* names of the data model, each once.
C4_ExactlyNineClaims ==
  Issued => Keys(Decoded) = ClaimNames /\ Len(Decoded) = Cardinality(ClaimNames)
C4_Witness == Issued /\ pc = DONE

\* C5: when the run is over, the decoded payload of the token equals, value
\* by value, the claims dict the run assembled and the JSON it printed under
\* "Decoded Token".
C5_DecodedEqualsDisplayed ==
  pc = DONE =>
    /\ DictEq(Decoded, payload)
    /\ DictEq(Decoded, json_loads(out[Len(out)].arg))

\* C6 as stated: the sub and the tenant_id of an invocation differ from those
\* of the invocation before it.
C6_SuccessiveRunsDiffer ==
  (previous # NoRun /\ payload # <<>>) =>
    /\ ~SameValue(Get(payload, "sub"), previous.sub)
    /\ ~SameValue(Get(payload, "tenant_id"), previous.tenant_id)
\* C6 amended: sub and tenant_id are the text of the two identifiers this
\* invocation drew itself, so they differ from those of the invocation before
\* it whenever the draws differ.
C6_FreshPerInvocation ==
  payload # <<>> =>
    /\ SameValue(Get(payload, "tenant_id"), str(uuid4(rng[1])))
    /\ SameValue(Get(payload, "sub"), str(uuid4(rng[2])))
    /\ previous # NoRun =>
         /\ rng[1] # previous.draws[1] =>
              ~SameValue(Get(payload, "tenant_id"), previous.tenant_id)
         /\ rng[2] # previous.draws[2] =>
              ~SameValue(Get(payload, "sub"), previous.sub)
C6_Witness ==
  /\ previous # NoRun
  /\ Issued
  /\ rng[1] # previous.draws[1]
  /\ rng[2] # previous.draws[2]

\* C7: once signing has raised, the run is aborted with no token and no
\* output, and within the run nothing happens any more.
C7_SigningFailureIsFatal ==
  /\ [](exception # "none" => pc = ABORTED /\ token = NoToken /\ out = <<>>)
  /\ [][(exception # "none" /\ run' = run) => UNCHANGED vars]_vars
C7_Witness == exception # "none" /\ payload # <<>>

C9_ExpAfterIat ==
  Issued => Get(Decoded, "exp").v > Get(Decoded, "iat").v

\* C10: a run prints only after the token is issued, every printed token is
\* that token, the printed tenant and user identifiers are the ones signed
\* into it, the token does not change once issued, and the claims dict does
\* not change once assembled, signing included.
C10_SingleIssuance ==
  /\ [](out # <<>> =>
          /\ Issued
          /\ \A i \in DOMAIN out :
               /\ out[i].line \in TokenLines => out[i].arg = token
               /\ out[i].line = 36 =>
                    /\ SameValue(out[i].arg, Get(Decoded, "tenant_id"))
                    /\ SameValue(out[i].arg, Get(Decoded, "org_id"))
               /\ out[i].line = 37 => SameValue(out[i].arg, Get(Decoded, "sub"))
               /\ out[i].line = 56 => out[i].arg = json_dumps(payload, TRUE))
  /\ [][run' = run => /\ Issued => token' = token
                      /\ payload # <<>> => payload' = payload]_vars
C10_Witness ==
  /\ pc = DONE
  /\ {out[i].line : i \in DOMAIN out} = 35..56
  /\ Cardinality({i \in DOMAIN out : out[i].line \in TokenLines}) = 3

====
